---------------------------- MODULE Spec2Model ----------------------------
(***************************************************************************)
(* A model of the CedarGrove Weather_System CircuitPython scripts:         *)
(* the corrosion-index classification, the wind_direction converter and    *)
(* the polling / throttle / soft-reset loop of the source and display      *)
(* scripts.                                                                *)
(*                                                                         *)
(* Units.  Temperatures are integers in tenths of a degree and relative    *)
(* humidity in tenths of a percent (the scripts round both to one          *)
(* decimal), so "dew_c + 2" is "+ 20" and "humid_pct >= 80" is ">= 800".   *)
(* Compass headings are whole degrees; "+ 22.5" is computed in half        *)
(* degrees.                                                                *)
(***************************************************************************)
EXTENDS Integers, Sequences, FiniteSets, TLC

VARIABLES
    arg,        \* pure-function harness: the inputs drawn
    res,        \* pure-function harness: the result, Pending before the call
    script,     \* which code.py runs on the board ("none": harness only)
    xmit,       \* XMIT_SENSOR / XMIT_WEATHER of a source script
    pc,         \* position in the script
    phase,      \* inside a throttle-guarded request: idle, throttle, sleep, request
    n,          \* index of the feed being published or fetched in a series
    throttle,   \* what the last get_remaining_throttle_limit() returned
    io,         \* the external call the last step made, and whether it raised
    ticks,      \* busy(delay): one-second blinks done so far
    delay,      \* busy(delay): blinks to do
    after,      \* what follows the busy wait: the next cycle or supervisor.reload()
    temp_c,     \* workshop temperature of this cycle (tenths of a degree C)
    humid_pct,  \* workshop humidity of this cycle (tenths of a percent)
    dew_c,      \* dew point computed from the two
    corrosion_index,    \* the index the last classification produced
    sens_index, \* source scripts: the index the primary loop holds
    status,     \* display.status.text
    heater,     \* corrosion_sensor.heater
    heater_icon,        \* TRUE when display.heater_icon_mask reveals the icon
    weather_table,      \* the table fetched (its "current" part once extracted)
    weather_table_old,  \* the table of the last cycle that rendered / published
    forecast_table,     \* weather_table["forecast_days_1"]
    ext,        \* the exterior-conditions fields of the display
    rendered,   \* TRUE when this cycle wrote the exterior-conditions fields
    monotonic,  \* portal scripts: time.monotonic(), in whole seconds
    current_time,       \* portal scripts: the loop-top reading of the clock
    last_weather_update,        \* portal scripts: the timestamp a refresh is due from
    quality,    \* corrosion display: the feed quality counter
    watchdog,   \* corrosion display: the system-watchdog value last fetched
    previous_watchdog,  \* corrosion display: the value the next fetch is compared with
    label_color,        \* corrosion display: temperature / humidity / dew_point .color
    unchanged,  \* history: refreshes in a row that found the watchdog unchanged
    q_json,     \* weather display: created_at of the system-watchdog value fetched
    time_now,   \* weather display: time.time() read by the freshness test
    quality_alert       \* weather display: the QUALITY alert last raised

pureVars == <<arg, res>>
cfgVars  == <<script, xmit>>
ctlVars  == <<pc, phase, n>>
netVars  == <<throttle, io>>
busyVars == <<ticks, delay, after>>
sensVars == <<temp_c, humid_pct, dew_c, corrosion_index, sens_index, status,
             heater, heater_icon>>
wxVars   == <<weather_table, weather_table_old, forecast_table, ext, rendered>>
portalVars == <<monotonic, current_time, last_weather_update, quality,
               watchdog, previous_watchdog, label_color, unchanged>>
qualVars == <<q_json, time_now, quality_alert>>
procVars == <<cfgVars, ctlVars, netVars, busyVars, sensVars, wxVars, portalVars,
              qualVars>>

vars == <<pureVars, procVars>>

\* Python's None and "a value": an optional is the empty or a one-element tuple.
None == <<>>
Some(v) == <<v>>
Val(x) == x[1]

\* The harness result before the call.
Pending == <<>>

-----------------------------------------------------------------------------
(* Corrosion index classification                                          *)

\* A slip in the comparison: humidity strictly above 80.
CorrosionIndexStrictHumid(t, d, h) ==
    IF (t <= d + 20) \/ h > 800 THEN 2
    ELSE IF t <= d + 50 THEN 1
    ELSE 0

\* The branch order of a slip: the +5 margin is tested before the ALERT test.
CorrosionIndexMarginFirst(t, d, h) ==
    IF t <= d + 50 THEN 1
    ELSE IF (t <= d + 20) \/ h >= 800 THEN 2
    ELSE 0

\* if (temp_c <= dew_c + 2) or humid_pct >= 80: 2 / elif temp_c <= dew_c + 5: 1 / else 0
CorrosionIndex(t, d, h) ==
    IF (t <= d + 20) \/ h >= 800 THEN 2
    ELSE IF t <= d + 50 THEN 1
    ELSE 0

\* display.status.text written by the branch taken
StatusText(index) ==
    CASE index = 2 -> "ALERT"
      [] index = 1 -> "WARN"
      [] OTHER     -> "OK"

(* wind_direction                                                          *)

CompassLabels == <<"N", "NE", "E", "SE", "S", "SW", "W", "NW">>

\* int(((heading + 22.5) % 360) / 45), in half degrees
WindIndex(heading) == ((2 * heading + 45) % 720) \div 90

\* A slip that drops the half-sector offset: int((heading % 360) / 45)
wind_direction_no_offset(heading) ==
    IF heading = None THEN "--"
    ELSE CompassLabels[((2 * Val(heading)) % 720) \div 90 + 1]

wind_direction(heading) ==
    IF heading = None THEN "--"
    ELSE CompassLabels[WindIndex(Val(heading)) + 1]

-----------------------------------------------------------------------------
(* Unit conversions and the dew point (cedargrove_temperaturetools, a      *)
(* library outside this repository, modelled by what its callers rely on). *)

\* celsius_to_fahrenheit of whole degrees, formatted with ":.0f"
celsius_to_fahrenheit(c) == ((18 * c + 5) \div 10) + 32

\* round(fahrenheit_to_celsius(temp_f), 1), tenths in and out
fahrenheit_to_celsius(f) == (10 * (f - 320) + 9) \div 18

\* dew_point(temp_c, humid_pct)[0]: a function of the two readings only. The
\* library's formula is approximated by Td = T - (100 - RH) / 5.
dew_point_calc(t, h) == t - ((1000 - h) \div 5)

\* f"{x * 0.6214:.0f}": km/h to whole mph
mph(x) == (6214 * x + 5000) \div 10000

\* am_pm(hour): the 12-hour hour and "AM" / "PM"
am_pm(hour) ==
    IF hour < 12 THEN <<IF hour = 0 THEN 12 ELSE hour, "AM">>
    ELSE IF hour = 12 THEN <<12, "PM">>
    ELSE <<hour - 12, "PM">>

-----------------------------------------------------------------------------
(* The data the cloud service returns                                      *)

\* Distinct current-conditions tables and forecasts the service may return.
NumTables == 2
NumForecasts == 2

TIMEZONE_OFFSET == -8

ConditionCodes == <<"Clear", "Rain", "Cloudy">>

\* weather_table["current"] of table c
Current(c) ==
    [ conditionCode       |-> ConditionCodes[(c % 3) + 1],
      temperature         |-> 10 + 5 * c,
      humidity            |-> 40 + 10 * c,
      temperatureDewPoint |-> 5 + c,
      windSpeed           |-> 10 * c,
      windDirection       |-> (170 * c) % 360,
      windGust            |-> 15 * c,
      daylight            |-> (c % 2 = 1) ]

\* weather_table["forecast_days_1"] of forecast f: sunrise and sunset, UTC
Forecast(f) ==
    [ sunrise |-> <<14, (7 * f) % 60>>,
      sunset  |-> <<1, (11 * f) % 60>> ]

\* A fetched table names its current part and its forecast; 0 is "absent".
NoTable == [current |-> 0, forecast |-> 0]
RawTables == [current : 1..NumTables, forecast : 1..NumForecasts]

\* weather_table = weather_table["current"]
CurrentOf(raw) == [current |-> raw.current, forecast |-> 0]

\* The exterior fields before the first rendering.
BlankExt ==
    [ palette |-> None, icon |-> None, desc |-> None, temp |-> None,
      humid |-> None, dew |-> None, wind |-> None, gusts |-> None,
      sunrise |-> None, sunset |-> None ]

\* Weather_Display_v027: the exterior fields written from a changed table
RenderDisplay(c, f) ==
    LET cur == Current(c)
        fc  == Forecast(f)
        rise == am_pm((fc.sunrise[1] + TIMEZONE_OFFSET) % 24)
        set  == am_pm((fc.sunset[1] + TIMEZONE_OFFSET) % 24)
    IN  [ palette |-> Some(cur.daylight),
          icon    |-> Some(<<cur.conditionCode, cur.daylight>>),
          desc    |-> Some(cur.conditionCode),
          temp    |-> Some(celsius_to_fahrenheit(cur.temperature)),
          humid   |-> Some(cur.humidity),
          dew     |-> Some(celsius_to_fahrenheit(cur.temperatureDewPoint)),
          wind    |-> Some(<<wind_direction(Some(cur.windDirection)), mph(cur.windSpeed)>>),
          gusts   |-> Some(mph(cur.windGust)),
          sunrise |-> Some(<<rise[1], fc.sunrise[2], rise[2]>>),
          sunset  |-> Some(<<set[1], fc.sunset[2], set[2]>>) ]

\* Weather_Source_v026 / v027: the hour of sunrise / sunset on the display
SourceHour(h) ==
    LET a == h + TIMEZONE_OFFSET
        b == IF a < 0 THEN a + 24 ELSE a
        c == IF b > 12 THEN b - 12 ELSE b
    IN  IF c = 0 THEN 12 ELSE c

\* Weather_Source_v026 / v027: the exterior fields written from a changed
\* table (neither script selects a palette)
RenderSource(old, c, f) ==
    LET cur == Current(c)
        fc  == Forecast(f)
    IN  [ palette |-> old.palette,
          icon    |-> Some(<<cur.conditionCode, cur.daylight>>),
          desc    |-> Some(cur.conditionCode),
          temp    |-> Some(celsius_to_fahrenheit(cur.temperature)),
          humid   |-> Some(cur.humidity),
          dew     |-> Some(celsius_to_fahrenheit(cur.temperatureDewPoint)),
          wind    |-> Some(<<wind_direction(Some(cur.windDirection)), mph(cur.windSpeed)>>),
          gusts   |-> Some(mph(cur.windGust)),
          sunrise |-> Some(<<SourceHour(fc.sunrise[1]), fc.sunrise[2], ":">>),
          sunset  |-> Some(<<SourceHour(fc.sunset[1]), fc.sunset[2], ":">>) ]

\* What get_remaining_throttle_limit() may return.
ThrottleVals == {2, 5, 10, 11}

\* shop.int-temperature (tenths of a degree F) and shop.int-humidity
FeedTemps == {644, 698}
FeedHumids == {500, 780, 850}

\* corrosion_sensor.temperature (tenths of a degree C) and .relative_humidity
SensorTemps == {190, 220}
SensorHumids == {500, 780, 850}

-----------------------------------------------------------------------------
(* The scripts.  Each is one sequential program: connect, then a primary   *)
(* loop of fetches / publishes, each behind the throttle guard, then the   *)
(* end-of-cycle busy wait.                                                 *)

SAMPLE_INTERVAL == 240      \* busy(SAMPLE_INTERVAL)
STARTUP_INTERVAL == 10      \* busy(10): "Step up query rate when first starting"
RESET_DELAY == 30           \* busy(30) before supervisor.reload()
SENSOR_INTERVAL == 30       \* Weather_Source_v027: sensor check during busy
SENSOR_TEMP_OFFSET == -10   \* Weather_Source_v027: -1 degree, in tenths
THROTTLE_FLOOR == 10        \* while io.get_remaining_throttle_limit() <= 10
THROTTLE_FLOOR_V026 == 2    \* Weather_Source_v026, receive_weather: <= 2

SourceScripts == {"source", "source026", "source027"}
Scripts == {"display027"} \cup SourceScripts

\* An external call made at the current position, and one that raised.
Call(c) == [call |-> c, ok |-> TRUE, feed |-> "", at |-> pc]
Raised(c) == [call |-> c, ok |-> FALSE, feed |-> "", at |-> pc]

\* The state a script starts in, at power-up and after supervisor.reload().
Boot(s, x) ==
    [ script |-> s, xmit |-> x,
      pc |-> "wifi", phase |-> "idle", n |-> 0,
      throttle |-> -1,
      io |-> [call |-> "none", ok |-> TRUE, feed |-> "", at |-> "boot"],
      ticks |-> 0, delay |-> 0, after |-> "cycle",
      temp_c |-> None, humid_pct |-> None, dew_c |-> None,
      corrosion_index |-> None, sens_index |-> None,
      status |-> "", heater |-> FALSE,
      heater_icon |-> FALSE,
      weather_table |-> NoTable, weather_table_old |-> NoTable,
      forecast_table |-> 0, ext |-> BlankExt, rendered |-> FALSE,
      monotonic |-> 0, current_time |-> 0, last_weather_update |-> 0,
      quality |-> 10, watchdog |-> None, previous_watchdog |-> None,
      label_color |-> "WHITE", unchanged |-> 0,
      q_json |-> None, time_now |-> 0, quality_alert |-> "" ]

InitFrom(b) ==
    /\ script = b.script /\ xmit = b.xmit
    /\ pc = b.pc /\ phase = b.phase /\ n = b.n
    /\ throttle = b.throttle /\ io = b.io
    /\ ticks = b.ticks /\ delay = b.delay /\ after = b.after
    /\ temp_c = b.temp_c /\ humid_pct = b.humid_pct /\ dew_c = b.dew_c
    /\ corrosion_index = b.corrosion_index /\ sens_index = b.sens_index
    /\ status = b.status
    /\ heater = b.heater /\ heater_icon = b.heater_icon
    /\ weather_table = b.weather_table
    /\ weather_table_old = b.weather_table_old
    /\ forecast_table = b.forecast_table
    /\ ext = b.ext /\ rendered = b.rendered
    /\ monotonic = b.monotonic /\ current_time = b.current_time
    /\ last_weather_update = b.last_weather_update
    /\ quality = b.quality /\ watchdog = b.watchdog
    /\ previous_watchdog = b.previous_watchdog
    /\ label_color = b.label_color /\ unchanged = b.unchanged
    /\ q_json = b.q_json /\ time_now = b.time_now
    /\ quality_alert = b.quality_alert

\* XMIT_SENSOR and XMIT_WEATHER are set by whoever installs a source script.
XmitChoices(s) ==
    IF s \in SourceScripts
    THEN [sensor : BOOLEAN, weather : BOOLEAN]
    ELSE {[sensor |-> FALSE, weather |-> FALSE]}

Init ==
    /\ arg = None
    /\ res = Pending
    /\ \E s \in Scripts : \E x \in XmitChoices(s) : InitFrom(Boot(s, x))

-----------------------------------------------------------------------------
(* Exceptions.  What the except clause around a step does.                 *)

\* Handlers that all follow the reset pattern.
HandlerAlwaysReset(s, step) == "reset"

\* The except clauses as written.
\*   reset    : busy(30); supervisor.reload()
\*   continue : print, then carry on after the try statement
\*   crash    : the clause itself raises NameError before busy(30) (it names
\*              `feed` / `NEOPIXEL`, which are not defined): the script ends
\*   uncaught : the call is outside any try statement: the script ends
Handler(s, step) ==
    CASE s = "source" -> "reset"
      [] step \in {"wifi", "aio"} -> "reset"
      [] step = "time" -> "continue"
      [] step = "limits" -> "uncaught"
      [] s = "display027" /\ step \in {"watchdog", "temp", "humid"} -> "crash"
      [] s = "source027" /\ step = "weather" -> "crash"
      [] OTHER -> "reset"

\* A handler that goes to supervisor.reload() without the wait.
ToResetNoWait ==
    /\ pc' = "reload"
    /\ phase' = "idle"
    /\ UNCHANGED <<n, busyVars>>

\* busy(30); supervisor.reload()
ToReset ==
    /\ pc' = "busy"
    /\ phase' = "idle"
    /\ ticks' = 0
    /\ delay' = RESET_DELAY
    /\ after' = "reload"
    /\ UNCHANGED n

\* The script ends with a traceback; nothing runs until someone intervenes.
ToCrash ==
    /\ pc' = "crashed"
    /\ phase' = "idle"
    /\ UNCHANGED <<n, busyVars>>

Except(step) ==
    IF Handler(script, step) = "reset" THEN ToReset ELSE ToCrash

-----------------------------------------------------------------------------
(* Start-up                                                                *)

\* wifi.radio.connect(...)
Connect ==
    /\ pc = "wifi"
    /\ \/ /\ io' = Call("connect")
          /\ pc' = "aio"
          /\ UNCHANGED <<phase, n, busyVars>>
       \/ /\ io' = Raised("connect")
          /\ Except("wifi")
    /\ UNCHANGED <<pureVars, cfgVars, portalVars, qualVars, throttle, sensVars, wxVars>>

\* io = IO_HTTP(...)
CreateClient ==
    /\ pc = "aio"
    /\ \/ /\ io' = Call("IO_HTTP")
          /\ pc' = "time"
          /\ UNCHANGED <<phase, n, busyVars>>
       \/ /\ io' = Raised("IO_HTTP")
          /\ Except("aio")
    /\ UNCHANGED <<pureVars, cfgVars, portalVars, qualVars, throttle, sensVars, wxVars>>

-----------------------------------------------------------------------------
(* Primary loop: local time and the throttle print-out                     *)

\* update_local_time()
UpdateLocalTime ==
    /\ pc = "time"
    /\ \/ /\ io' = Call("receive_time")
          /\ pc' = "limits"
          /\ UNCHANGED <<phase, n, busyVars>>
       \/ /\ io' = Raised("receive_time")
          /\ IF Handler(script, "time") = "continue"
             THEN pc' = "limits" /\ UNCHANGED <<phase, n, busyVars>>
             ELSE Except("time")
    /\ UNCHANGED <<pureVars, cfgVars, portalVars, qualVars, throttle, sensVars, wxVars>>

\* The first throttle-guarded step of the loop.
FirstStep(s) == IF s = "display027" THEN "watchdog" ELSE "sensor"

\* print(f"Throttle Remain/Limit: {io.get_remaining_throttle_limit()}/...")
PrintLimits ==
    /\ pc = "limits"
    /\ \/ /\ \E v \in ThrottleVals : throttle' = v
          /\ io' = Call("get_remaining_throttle_limit")
          /\ pc' = FirstStep(script)
          /\ phase' = IF script = "display027" THEN "throttle" ELSE "idle"
          /\ UNCHANGED <<n, busyVars>>
       \/ /\ io' = Raised("get_remaining_throttle_limit")
          /\ throttle' = throttle
          /\ Except("limits")
    /\ UNCHANGED <<pureVars, cfgVars, portalVars, qualVars, sensVars, wxVars>>

-----------------------------------------------------------------------------
(* The throttle guard in front of every data request                       *)

GuardedSteps ==
    {"watchdog", "temp", "humid", "weather", "pub_sensor", "pub_weather"}

\* The literal the guard compares with.
ThrottleFloor(s, step) ==
    IF s = "source026" /\ step = "weather" THEN THROTTLE_FLOOR_V026
    ELSE THROTTLE_FLOOR

\* while io.get_remaining_throttle_limit() <= 10: the test of the loop
GuardPasses(s, step, v) == ~(v <= ThrottleFloor(s, step))

ThrottleQuery ==
    /\ pc \in GuardedSteps
    /\ phase = "throttle"
    /\ \/ /\ \E v \in ThrottleVals :
                /\ throttle' = v
                /\ phase' = IF GuardPasses(script, pc, v) THEN "request" ELSE "sleep"
          /\ io' = Call("get_remaining_throttle_limit")
          /\ UNCHANGED <<pc, n, busyVars>>
       \/ /\ io' = Raised("get_remaining_throttle_limit")
          /\ throttle' = throttle
          /\ Except(pc)
    /\ UNCHANGED <<pureVars, cfgVars, portalVars, qualVars, sensVars, wxVars>>

\* time.sleep(1)  # Wait until throttle limit increases
ThrottleSleep ==
    /\ pc \in GuardedSteps
    /\ phase = "sleep"
    /\ phase' = "throttle"
    /\ io' = Call("sleep")
    /\ UNCHANGED <<pureVars, cfgVars, portalVars, qualVars, pc, n, throttle, busyVars, sensVars, wxVars>>

-----------------------------------------------------------------------------
(* The end-of-cycle wait                                                   *)

\* busy(delay) as the last statement of a cycle
Busy(d) ==
    /\ pc' = "busy"
    /\ phase' = "idle"
    /\ ticks' = 0
    /\ delay' = d
    /\ after' = "cycle"
    /\ UNCHANGED n

\* A cycle that always takes the short wait.
CycleDelayAlwaysShort(table) == STARTUP_INTERVAL

\* A cycle that always waits the full interval.
CycleDelayAlwaysFull(table) == SAMPLE_INTERVAL

\* if weather_table: ... busy(SAMPLE_INTERVAL) / else: ... busy(10)
CycleDelay(table) ==
    IF table # NoTable THEN SAMPLE_INTERVAL ELSE STARTUP_INTERVAL

\* A comparison that never sees the table as unchanged.
TableChangedAlways(new, old) == TRUE

\* A comparison that sees a change only while nothing is cached.
TableChangedFromEmpty(new, old) == old = NoTable

\* A comparison that never sees a change, so that nothing is ever cached.
TableChangedNever(new, old) == FALSE

\* if weather_table != weather_table_old:
TableChanged(new, old) == new # old

-----------------------------------------------------------------------------
(* Weather_Display_v027: workshop conditions from the feeds                *)

\* get_last_value(feed_key): io.receive_data(feed_key) once the guard passed
\* Seconds after which the watchdog value counts as old: 10 * 60
QUALITY_MAX_AGE == 600

\* time.time() when the freshness test runs (local seconds), and the
\* created_at of the watchdog value (UTC seconds) at ages 599, 600 and 601 s
\* of the first clock reading.
ClockTimes == {100000, 100001}
CreatedAts == {128199, 128200, 128201}

\* datetime.fromisoformat(q_json["created_at"]).timestamp()
\*     + os.getenv("TIMEZONE_OFFSET") * 60 * 60
created_at_ts(c) == c + TIMEZONE_OFFSET * 60 * 60

\* A slip in the comparison: the warning starts at ten minutes exactly.
QualityAlertAtLimit(t, ts) ==
    IF t - ts >= QUALITY_MAX_AGE THEN "QUALITY WARN" ELSE "QUALITY OK"

\* if time.time() - created_at_ts > 10 * 60: display.alert("QUALITY WARN")
\* else: display.alert("QUALITY OK")
QualityAlert(t, ts) ==
    IF t - ts > QUALITY_MAX_AGE THEN "QUALITY WARN" ELSE "QUALITY OK"

\* q_json = get_last_value("system-watchdog", json=True) and the freshness
\* test; get_last_value(...) of the temperature and the humidity feed
ReceiveData ==
    /\ script = "display027"
    /\ pc \in {"watchdog", "temp", "humid"}
    /\ phase = "request"
    /\ \/ /\ pc = "watchdog"
          /\ io' = Call("receive_data")
          /\ \E c \in CreatedAts : \E t \in ClockTimes :
                /\ q_json' = Some(c)
                /\ time_now' = t
                /\ quality_alert' = QualityAlert(t, created_at_ts(c))
          /\ pc' = "temp"
          /\ phase' = "throttle"
          /\ UNCHANGED <<n, busyVars, temp_c, humid_pct>>
       \/ /\ pc = "temp"
          /\ io' = Call("receive_data")
          /\ \E f \in FeedTemps : temp_c' = Some(fahrenheit_to_celsius(f))
          /\ pc' = "humid"
          /\ phase' = "throttle"
          /\ UNCHANGED <<n, busyVars, humid_pct, qualVars>>
       \/ /\ pc = "humid"
          /\ io' = Call("receive_data")
          /\ \E h \in FeedHumids : humid_pct' = Some(h)
          /\ pc' = "classify"
          /\ phase' = "idle"
          /\ UNCHANGED <<n, busyVars, temp_c, qualVars>>
       \/ /\ io' = Raised("receive_data")
          /\ Except(pc)
          /\ UNCHANGED <<temp_c, humid_pct, qualVars>>
    /\ UNCHANGED <<pureVars, cfgVars, portalVars, throttle, dew_c,
                   corrosion_index, sens_index, status, heater, heater_icon,
                   wxVars>>

\* A classification with hysteresis: an ALERT stays until the margin is safe.
DisplayClassifySticky ==
    /\ script = "display027"
    /\ pc = "classify"
    /\ dew_c' = Some(dew_point_calc(Val(temp_c), Val(humid_pct)))
    /\ corrosion_index' =
          IF corrosion_index = Some(2)
             /\ CorrosionIndex(Val(temp_c), Val(dew_c'), Val(humid_pct)) = 1
          THEN Some(2)
          ELSE Some(CorrosionIndex(Val(temp_c), Val(dew_c'), Val(humid_pct)))
    /\ status' = StatusText(Val(corrosion_index'))
    /\ pc' = "weather"
    /\ phase' = "throttle"
    /\ io' = Call("classify")
    /\ UNCHANGED <<pureVars, cfgVars, portalVars, qualVars, n, throttle, busyVars, temp_c, humid_pct,
                   sens_index, heater, heater_icon, wxVars>>

\* Display dew point; calculate and display corrosion index value
DisplayClassify ==
    /\ script = "display027"
    /\ pc = "classify"
    /\ dew_c' = Some(dew_point_calc(Val(temp_c), Val(humid_pct)))
    /\ corrosion_index' =
          Some(CorrosionIndex(Val(temp_c), Val(dew_c'), Val(humid_pct)))
    /\ status' = StatusText(Val(corrosion_index'))
    /\ pc' = "weather"
    /\ phase' = "throttle"
    /\ io' = Call("classify")
    /\ UNCHANGED <<pureVars, cfgVars, portalVars, qualVars, n, throttle, busyVars, temp_c, humid_pct,
                   sens_index, heater, heater_icon, wxVars>>

-----------------------------------------------------------------------------
(* Every script: the AIO+ Weather fetch                                    *)

\* weather_table = io.receive_weather(...) once the guard passed
ReceiveWeather ==
    /\ pc = "weather"
    /\ phase = "request"
    /\ \/ /\ io' = Call("receive_weather")
          /\ \E raw \in RawTables \cup {NoTable} : weather_table' = raw
          /\ pc' = "table"
          /\ phase' = "idle"
          /\ UNCHANGED <<n, busyVars>>
       \/ /\ io' = Raised("receive_weather")
          /\ Except("weather")
          /\ UNCHANGED weather_table
    /\ UNCHANGED <<pureVars, cfgVars, portalVars, qualVars, throttle, sensVars, weather_table_old,
                   forecast_table, ext, rendered>>

\* Weather_Display_v027: "if weather_table:" to the end of the loop body
DisplayTable ==
    /\ script = "display027"
    /\ pc = "table"
    /\ IF weather_table # NoTable
       THEN /\ forecast_table' = weather_table.forecast
            /\ weather_table' = CurrentOf(weather_table)
            /\ IF TableChanged(weather_table', weather_table_old)
               THEN /\ ext' = RenderDisplay(weather_table.current, forecast_table')
                    /\ rendered' = TRUE
                    /\ weather_table_old' = weather_table'
               ELSE UNCHANGED <<ext, rendered, weather_table_old>>
       ELSE UNCHANGED wxVars
    /\ Busy(CycleDelay(weather_table))
    /\ io' = Call("none")
    /\ UNCHANGED <<pureVars, cfgVars, portalVars, qualVars, throttle, sensVars>>

-----------------------------------------------------------------------------
(* The source scripts: the local sensor                                    *)

\* The configuration of the commented-out sensor block: SENSOR_HEAT = True
SENSOR_HEAT_On == TRUE

\* SENSOR_HEAT = False (Weather_Source_v027)
SENSOR_HEAT == FALSE

\* min(max(value, lo), hi)
Constrain(v, lo, hi) ==
    IF v < lo THEN lo ELSE IF v > hi THEN hi ELSE v

\* The temperature read_local_sensor() works with, per script.
SensorTemp(s, t) ==
    IF s = "source027" THEN Constrain(t + SENSOR_TEMP_OFFSET, -400, 850)
    ELSE IF s = "source" THEN Constrain(t, -400, 1250)
    ELSE t

\* Weather_Source_v026 has the sensor reads commented out:
\* temp_c = 17.1, humid_pct = 42
SensorTempsOf(s) == IF s = "source026" THEN {171} ELSE SensorTemps
SensorHumidsOf(s) == IF s = "source026" THEN {420} ELSE SensorHumids

\* read_local_sensor() from the readings t, h to its return
ApplySensor(t, h) ==
    LET tc == SensorTemp(script, t)
        d  == dew_point_calc(tc, h)
        ix == CorrosionIndex(tc, d, h)
    IN  /\ temp_c' = Some(tc)
        /\ humid_pct' = Some(h)
        /\ dew_c' = Some(d)
        /\ corrosion_index' = Some(ix)
        /\ status' = IF script = "source027" THEN StatusText(ix) ELSE status
        /\ heater' = IF script = "source" \/ (script = "source027" /\ SENSOR_HEAT)
                     THEN ix = 2
                     ELSE heater
        /\ heater_icon' = IF script # "source027" THEN heater_icon
                          ELSE IF ix = 2 THEN (SENSOR_HEAT \/ heater_icon)
                          ELSE FALSE

\* XMIT_SENSOR / XMIT_WEATHER as passed to publish_to_aio
PubXmit(step) == IF step = "pub_sensor" THEN xmit.sensor ELSE xmit.weather

\* A publish that treats None like any other value.
PubPhaseOfIgnoreNone(value, x) == IF x THEN "throttle" ELSE "local"

\* publish_to_aio: "if value is not None:" / "if xmit:" and their else parts
PubPhaseOf(value, x) ==
    IF value = None THEN "skip"
    ELSE IF x THEN "throttle"
    ELSE "local"

\* The values the primary loops publish are never None: a None reading
\* ends the script before the first publish (see ReadLocalSensor).
PubPhase(step) == PubPhaseOf(Some(0), PubXmit(step))

\* sens_temp, sens_humid, sens_dew_pt, sens_index = read_local_sensor()
\* (the two busy(3) settling waits inside Weather_Source's function are part
\* of this step)
ReadLocalSensor ==
    /\ script \in SourceScripts
    /\ pc = "sensor"
    /\ \/ /\ \E t \in SensorTempsOf(script) : \E h \in SensorHumidsOf(script) :
                ApplySensor(t, h)
          /\ sens_index' = corrosion_index'
          /\ io' = Call("read_local_sensor")
          /\ pc' = "pub_sensor"
          /\ n' = 1
          /\ phase' = PubPhase("pub_sensor")
          /\ UNCHANGED busyVars
       \/ /\ script # "source026"
          /\ io' = Raised("sensor")
          /\ Except("sensor")
          /\ UNCHANGED sensVars
       \* Weather_Source: a reading is None.  "if None in (temp_c, dew_c):
       \* return" returns None, and unpacking it into the four names raises
       \* TypeError in the primary loop, outside any try statement.
       \/ /\ script = "source"
          /\ \/ /\ temp_c' = None
                /\ \E h \in SensorHumidsOf(script) : humid_pct' = Some(h)
             \/ /\ \E t \in SensorTempsOf(script) :
                      temp_c' = Some(SensorTemp(script, t))
                /\ humid_pct' = None
          /\ dew_c' = None
          /\ io' = Raised("read_local_sensor")
          /\ ToCrash
          /\ UNCHANGED <<corrosion_index, sens_index, status, heater, heater_icon>>
    /\ UNCHANGED <<pureVars, cfgVars, portalVars, qualVars, throttle, wxVars>>

-----------------------------------------------------------------------------
(* The source scripts: publishing                                          *)

SensorFeeds(s) ==
    IF s = "source027"
    THEN << "system-watchdog", "shop.int-temperature", "shop.int-humidity",
            "shop.int-dewpoint", "shop.int-corrosion-index",
            "shop.int-pcb-temperature" >>
    ELSE << "system-watchdog", "shop.int-temperature", "shop.int-humidity",
            "shop.int-dewpoint", "shop.int-corrosion-index",
            "shop.int-sensor-heater-on", "shop.int-pcb-temperature" >>

WeatherFeeds(s) ==
    IF s = "source"
    THEN << "system-watchdog", "weather-description", "weather-humidity",
            "weather-temperature", "weather-winddirection",
            "weather-windgusts", "weather-windspeed", "weather-daylight" >>
    ELSE << "system-watchdog", "weather-description", "weather-humidity",
            "weather-temperature", "weather-winddirection",
            "weather-windspeed", "weather-windgusts", "weather-daylight" >>

Feeds(s, step) ==
    IF step = "pub_sensor" THEN SensorFeeds(s) ELSE WeatherFeeds(s)

\* Weather_Source_v026: "Display the corrosion status" from sens_index
StatusAfterPublish ==
    IF script = "source026"
    THEN /\ status' = StatusText(Val(sens_index))
         /\ heater_icon' = (Val(sens_index) = 2)
    ELSE UNCHANGED <<status, heater_icon>>

\* The statement after a publish_to_aio() call that returned.
PublishAdvance ==
    IF n < Len(Feeds(script, pc))
    THEN /\ n' = n + 1
         /\ phase' = PubPhase(pc)
         /\ UNCHANGED <<pc, busyVars, status, heater_icon, weather_table_old>>
    ELSE IF pc = "pub_sensor"
    THEN /\ pc' = "weather"
         /\ phase' = "throttle"
         /\ n' = 0
         /\ StatusAfterPublish
         /\ UNCHANGED <<busyVars, weather_table_old>>
    ELSE /\ weather_table_old' = weather_table
         /\ Busy(CycleDelay(weather_table))
         /\ UNCHANGED <<status, heater_icon>>

\* publish_to_aio(value, feed, xmit=True): io.send_data(feed, value)
SendData ==
    /\ script \in SourceScripts
    /\ pc \in {"pub_sensor", "pub_weather"}
    /\ phase = "request"
    /\ \/ /\ io' = [Call("send_data") EXCEPT !.feed = Feeds(script, pc)[n]]
          /\ PublishAdvance
       \/ /\ io' = Raised("send_data")
          /\ Except(pc)
          /\ UNCHANGED <<status, heater_icon, weather_table_old>>
    /\ UNCHANGED <<pureVars, cfgVars, portalVars, qualVars, throttle, temp_c, humid_pct, dew_c,
                   corrosion_index, sens_index, heater, weather_table,
                   forecast_table, ext, rendered>>

\* publish_to_aio(value, feed, xmit=False): print(f"DISP '{value}' {feed}")
PublishLocal ==
    /\ script \in SourceScripts
    /\ pc \in {"pub_sensor", "pub_weather"}
    /\ phase = "local"
    /\ io' = [Call("print") EXCEPT !.feed = Feeds(script, pc)[n]]
    /\ PublishAdvance
    /\ UNCHANGED <<pureVars, cfgVars, portalVars, qualVars, throttle, temp_c, humid_pct, dew_c,
                   corrosion_index, sens_index, heater, weather_table,
                   forecast_table, ext, rendered>>

\* The source scripts: "if weather_table:" up to the first publish
SourceTable ==
    /\ script \in SourceScripts
    /\ pc = "table"
    /\ IF weather_table = NoTable
       THEN /\ Busy(CycleDelay(weather_table))
            /\ UNCHANGED wxVars
       ELSE /\ weather_table' =
                  IF script = "source" THEN weather_table
                  ELSE CurrentOf(weather_table)
            /\ forecast_table' =
                  IF script = "source" THEN forecast_table
                  ELSE weather_table.forecast
            /\ IF TableChanged(weather_table', weather_table_old)
               THEN /\ ext' = IF script = "source" THEN ext
                              ELSE RenderSource(ext, weather_table.current,
                                                forecast_table')
                    /\ rendered' = (script # "source")
                    /\ pc' = "pub_weather"
                    /\ n' = 1
                    /\ phase' = PubPhase("pub_weather")
                    /\ UNCHANGED <<busyVars, weather_table_old>>
               ELSE /\ Busy(CycleDelay(weather_table))
                    /\ UNCHANGED <<ext, rendered, weather_table_old>>
    /\ io' = Call("none")
    /\ UNCHANGED <<pureVars, cfgVars, portalVars, qualVars, throttle, sensVars>>

-----------------------------------------------------------------------------
(* busy(delay), the soft reset, and the loop                               *)

\* One pass of "for blinks in range(delay)": one second.  Weather_Source_v027
\* reads the local sensor first when blinks % SENSOR_INTERVAL == 0.
Tick ==
    /\ pc = "busy"
    /\ ticks < delay
    /\ IF script = "source027" /\ ticks % SENSOR_INTERVAL = 0
       THEN \/ /\ \E t \in SensorTempsOf(script) : \E h \in SensorHumidsOf(script) :
                     ApplySensor(t, h)
               /\ ticks' = ticks + 1
               /\ io' = Call("read_local_sensor")
               /\ UNCHANGED <<ctlVars, delay, after, sens_index>>
            \/ /\ io' = Raised("sensor")
               /\ ToReset
               /\ UNCHANGED sensVars
       ELSE /\ ticks' = ticks + 1
            /\ io' = Call("sleep")
            /\ UNCHANGED <<ctlVars, delay, after, sensVars>>
    /\ UNCHANGED <<pureVars, cfgVars, portalVars, qualVars, throttle, wxVars>>

\* busy() returns: supervisor.reload() after an error, else the next pass
\* of "while True:"
BusyDone ==
    /\ pc = "busy"
    /\ ticks = delay
    /\ IF after = "reload"
       THEN /\ pc' = "reload"
            /\ io' = Call("supervisor.reload")
            /\ UNCHANGED rendered
       ELSE /\ pc' = "time"
            /\ io' = Call("none")
            /\ rendered' = FALSE
    /\ UNCHANGED <<pureVars, cfgVars, portalVars, qualVars, phase, n, throttle, busyVars, sensVars,
                   weather_table, weather_table_old, forecast_table, ext>>

\* The primed counterpart of InitFrom.
StartFrom(b) ==
    /\ script' = b.script /\ xmit' = b.xmit
    /\ pc' = b.pc /\ phase' = b.phase /\ n' = b.n
    /\ throttle' = b.throttle /\ io' = b.io
    /\ ticks' = b.ticks /\ delay' = b.delay /\ after' = b.after
    /\ temp_c' = b.temp_c /\ humid_pct' = b.humid_pct /\ dew_c' = b.dew_c
    /\ corrosion_index' = b.corrosion_index /\ sens_index' = b.sens_index
    /\ status' = b.status
    /\ heater' = b.heater /\ heater_icon' = b.heater_icon
    /\ weather_table' = b.weather_table
    /\ weather_table_old' = b.weather_table_old
    /\ forecast_table' = b.forecast_table
    /\ ext' = b.ext /\ rendered' = b.rendered
    /\ monotonic' = b.monotonic /\ current_time' = b.current_time
    /\ last_weather_update' = b.last_weather_update
    /\ quality' = b.quality /\ watchdog' = b.watchdog
    /\ previous_watchdog' = b.previous_watchdog
    /\ label_color' = b.label_color /\ unchanged' = b.unchanged
    /\ q_json' = b.q_json /\ time_now' = b.time_now
    /\ quality_alert' = b.quality_alert

\* supervisor.reload(): code.py runs again from its first line
Reload ==
    /\ pc = "reload"
    /\ StartFrom(Boot(script, xmit))
    /\ UNCHANGED pureVars

Next ==
    \/ Connect
    \/ CreateClient
    \/ UpdateLocalTime
    \/ PrintLimits
    \/ ThrottleQuery
    \/ ThrottleSleep
    \/ ReceiveData
    \/ DisplayClassify
    \/ ReceiveWeather
    \/ DisplayTable
    \/ ReadLocalSensor
    \/ SendData
    \/ PublishLocal
    \/ SourceTable
    \/ Tick
    \/ BusyDone
    \/ Reload

Spec == Init /\ [][Next]_vars

-----------------------------------------------------------------------------
(* The pure functions on their own: the inputs are drawn, the call is made *)

\* Bounds of the inputs drawn for the classification (tenths).
TempLo == 195
TempHi == 215
DewLo == 95
DewHi == 200

CITemps == TempLo..TempHi
CIDews == DewLo..DewHi
CIHumids == {0, 500, 799, 800, 801, 1000}

MaxHeading == 359

\* No script runs while a pure function is exercised.
Idle == InitFrom(Boot("none", [sensor |-> FALSE, weather |-> FALSE]))

CIInit ==
    /\ arg \in [temp_c : CITemps, dew_c : CIDews, humid_pct : CIHumids]
    /\ res = Pending
    /\ Idle

CIApply ==
    /\ script = "none"
    /\ "temp_c" \in DOMAIN arg
    /\ res = Pending
    /\ res' = Some(CorrosionIndex(arg.temp_c, arg.dew_c, arg.humid_pct))
    /\ UNCHANGED <<arg, procVars>>

CINext == CIApply

SpecCorrosion == CIInit /\ [][CINext]_vars

WDInit ==
    /\ arg \in [heading : {Some(h) : h \in 0..MaxHeading} \cup {None}]
    /\ res = Pending
    /\ Idle

WDApply ==
    /\ script = "none"
    /\ "heading" \in DOMAIN arg
    /\ res = Pending
    /\ res' = Some(wind_direction(arg.heading))
    /\ UNCHANGED <<arg, procVars>>

WDNext == WDApply

SpecWind == WDInit /\ [][WDNext]_vars

-----------------------------------------------------------------------------
(* publish_to_aio(value, feed, xmit) on its own, for every value (None     *)
(* included), feed and xmit.  The throttle guard is the one of the         *)
(* scripts (ThrottleQuery, ThrottleSleep).                                 *)

AllFeeds ==
    {SensorFeeds("source")[i] : i \in 1..Len(SensorFeeds("source"))}
    \cup {WeatherFeeds("source")[i] : i \in 1..Len(WeatherFeeds("source"))}

PAInit ==
    /\ arg \in [value : {None, Some(0), Some(1)}, feed : AllFeeds, xmit : BOOLEAN]
    /\ res = [sends |-> 0, returned |-> FALSE]
    /\ InitFrom([Boot("none", [sensor |-> FALSE, weather |-> FALSE])
                   EXCEPT !.pc = "pub_sensor", !.phase = "entry", !.n = 1])

\* publish_to_aio is entered: which branch runs
PAEnter ==
    /\ script = "none"
    /\ "value" \in DOMAIN arg
    /\ phase = "entry"
    /\ phase' = PubPhaseOf(arg.value, arg.xmit)
    /\ io' = Call("publish_to_aio")
    /\ UNCHANGED <<pureVars, cfgVars, portalVars, qualVars, pc, n, throttle, busyVars, sensVars, wxVars>>

\* io.send_data(feed, value), then the function returns; or the handler
PASend ==
    /\ script = "none"
    /\ "value" \in DOMAIN arg
    /\ phase = "request"
    /\ \/ /\ io' = [Call("send_data") EXCEPT !.feed = arg.feed]
          /\ res' = [sends |-> res.sends + 1, returned |-> TRUE]
          /\ phase' = "done"
          /\ UNCHANGED <<pc, n, busyVars>>
       \/ /\ io' = Raised("send_data")
          /\ Except(pc)
          /\ UNCHANGED res
    /\ UNCHANGED <<arg, cfgVars, portalVars, qualVars, throttle, sensVars, wxVars>>

\* print(f"DISP '{value}' {feed}"), then the function returns
PALocal ==
    /\ script = "none"
    /\ "value" \in DOMAIN arg
    /\ phase = "local"
    /\ io' = [Call("print") EXCEPT !.feed = arg.feed]
    /\ res' = [res EXCEPT !.returned = TRUE]
    /\ phase' = "done"
    /\ UNCHANGED <<arg, cfgVars, portalVars, qualVars, pc, n, throttle, busyVars, sensVars, wxVars>>

\* print(f"FAIL: '{value}' for {feed}"), then the function returns
PASkip ==
    /\ script = "none"
    /\ "value" \in DOMAIN arg
    /\ phase = "skip"
    /\ io' = [Call("print") EXCEPT !.feed = arg.feed]
    /\ res' = [res EXCEPT !.returned = TRUE]
    /\ phase' = "done"
    /\ UNCHANGED <<arg, cfgVars, portalVars, qualVars, pc, n, throttle, busyVars, sensVars, wxVars>>

PANext ==
    \/ PAEnter
    \/ ThrottleQuery
    \/ ThrottleSleep
    \/ PASend
    \/ PALocal
    \/ PASkip

SpecPublish == PAInit /\ [][PANext]_vars

-----------------------------------------------------------------------------
(* The portal displays: PyPortal_Corrosion_Display ("corrosion"),          *)
(* PyPortal_Mikey_Weather_Display ("mikey") and                            *)
(* Matrix_Portal_Weather_Display ("matrix").  time.monotonic() is counted  *)
(* in whole seconds.                                                       *)

PortalScripts == {"corrosion", "mikey", "matrix"}

SAMPLE_INTERVAL_CORROSION == 120    \* PyPortal_Corrosion_Display
SAMPLE_INTERVAL_PORTAL == 1200      \* PyPortal_Mikey / Matrix_Portal
QUALITY_THRESHOLD == 8              \* "Quality warning when less than threshold"
PORTAL_RESET_DELAY == 30            \* time.sleep(30) before supervisor.reload()

SampleInterval(s) ==
    IF s = "corrosion" THEN SAMPLE_INTERVAL_CORROSION ELSE SAMPLE_INTERVAL_PORTAL

\* The clock is followed up to MaxTime seconds after power-up.
MaxTime == 1400

\* time.monotonic() when code.py starts
StartTimes == {0, 1}
\* seconds one pass of the main loop takes (the sleep and the screen work)
PassTimes == {1}
\* seconds the fetches of update_display() take
FetchTimes == {1, 3}
\* what the system-watchdog feed may hold
WatchdogValues == {0, 1}

\* A slip in the comparison: a refresh as soon as the interval is reached.
DueAtInterval(now, last, s) == now - last >= SampleInterval(s)

\* if current_time - last_weather_update > SAMPLE_INTERVAL:
Due(now, last, s) == now - last > SampleInterval(s)

\* A slip: the counter is lowered without the floor.
LowerNoFloor(q) == q - 1

\* quality -= 1; if quality < 0: quality = 0
Lower(q) == IF q - 1 < 0 THEN 0 ELSE q - 1

\* A slip in the comparison: the warning starts at the threshold itself.
WarnColorAtThreshold(q, c) == IF q <= QUALITY_THRESHOLD THEN "RED" ELSE c

\* if quality < QUALITY_THRESHOLD: temperature.color = RED; ...
\* (no else: the labels keep their colour)
WarnColor(q, c) == IF q < QUALITY_THRESHOLD THEN "RED" ELSE c

PortalInit ==
    /\ arg = None
    /\ res = Pending
    /\ \E s \in PortalScripts : \E t \in StartTimes :
          InitFrom([Boot(s, [sensor |-> FALSE, weather |-> FALSE])
                      EXCEPT !.pc = "start", !.monotonic = t])

\* get_last_value() caught an exception.  The PyPortal scripts sleep 30 s and
\* reload; the Matrix Portal one prints and returns None, and
\* float(None) in update_display() ends the script.
FetchFailed ==
    /\ io' = Raised("receive_data")
    /\ IF script = "matrix"
       THEN /\ pc' = "crashed"
            /\ UNCHANGED monotonic
       ELSE /\ monotonic + PORTAL_RESET_DELAY <= MaxTime
            /\ monotonic' = monotonic + PORTAL_RESET_DELAY
            /\ pc' = "reload"

\* update_display() returned after d seconds.
Fetched(d) ==
    /\ monotonic + d <= MaxTime
    /\ monotonic' = monotonic + d
    /\ io' = Call("update_display")

\* From "last_weather_update = time.monotonic()" to the first "while True:"
StartPortal ==
    /\ script \in PortalScripts
    /\ pc = "start"
    /\ last_weather_update' = monotonic
    /\ \/ /\ \E w \in WatchdogValues :
                watchdog' = IF script = "corrosion" THEN Some(w) ELSE None
          /\ previous_watchdog' = watchdog'
          /\ \/ /\ \E d \in FetchTimes : Fetched(d)
                /\ pc' = "loop"
             \/ FetchFailed
       \/ /\ script = "corrosion"
          /\ FetchFailed
          /\ UNCHANGED <<watchdog, previous_watchdog>>
    /\ UNCHANGED <<pureVars, cfgVars, phase, n, throttle, busyVars, sensVars,
                   wxVars, qualVars, current_time, quality, label_color, unchanged>>

\* current_time = time.monotonic() and the test of the interval
LoopTop ==
    /\ script \in PortalScripts
    /\ pc = "loop"
    /\ current_time' = monotonic
    /\ pc' = IF Due(current_time', last_weather_update, script)
             THEN "refresh" ELSE "rest"
    /\ io' = Call("monotonic")
    /\ UNCHANGED <<pureVars, cfgVars, phase, n, throttle, busyVars, sensVars,
                   wxVars, qualVars, monotonic, last_weather_update, quality, watchdog,
                   previous_watchdog, label_color, unchanged>>

\* Corrosion display: "Test for feed quality" with the value w fetched
TestQuality(w) ==
    /\ watchdog' = Some(w)
    /\ IF watchdog' = previous_watchdog
       THEN /\ quality' = Lower(quality)
            /\ label_color' = WarnColor(quality', label_color)
            /\ unchanged' = unchanged + 1
            /\ UNCHANGED previous_watchdog
       ELSE /\ previous_watchdog' = watchdog'
            /\ quality' = 10
            /\ label_color' = "WHITE"
            /\ unchanged' = 0

\* The body of the "if" in the main loop.  The corrosion display tests the
\* watchdog, stores the timestamp and then calls update_display(); the other
\* two call update_display() and then store the timestamp.
Refresh ==
    /\ script \in PortalScripts
    /\ pc = "refresh"
    /\ IF script = "corrosion"
       THEN \/ /\ FetchFailed
               /\ UNCHANGED <<last_weather_update, quality, watchdog,
                              previous_watchdog, label_color, unchanged>>
            \/ /\ \E w \in WatchdogValues : TestQuality(w)
               /\ last_weather_update' = current_time
               /\ \/ /\ \E d \in FetchTimes : Fetched(d)
                     /\ pc' = "rest"
                  \/ FetchFailed
       ELSE /\ \/ /\ \E d \in FetchTimes : Fetched(d)
                  /\ last_weather_update' = current_time
                  /\ pc' = "rest"
               \/ /\ FetchFailed
                  /\ UNCHANGED last_weather_update
            /\ UNCHANGED <<quality, watchdog, previous_watchdog, label_color,
                           unchanged>>
    /\ UNCHANGED <<pureVars, cfgVars, phase, n, throttle, busyVars, sensVars,
                   wxVars, qualVars, current_time>>

\* The rest of the pass: the clock digits, the brightness, time.sleep(...)
LoopRest ==
    /\ script \in PortalScripts
    /\ pc = "rest"
    /\ \E p \in PassTimes :
          /\ monotonic + p <= MaxTime
          /\ monotonic' = monotonic + p
    /\ pc' = "loop"
    /\ io' = Call("sleep")
    /\ UNCHANGED <<pureVars, cfgVars, phase, n, throttle, busyVars, sensVars,
                   wxVars, qualVars, current_time, last_weather_update, quality, watchdog,
                   previous_watchdog, label_color, unchanged>>

\* supervisor.reload(): code.py runs again; the clock runs on
ReloadPortal ==
    /\ script \in PortalScripts
    /\ pc = "reload"
    /\ StartFrom([Boot(script, xmit)
                    EXCEPT !.pc = "start", !.monotonic = monotonic])
    /\ UNCHANGED pureVars

PortalNext ==
    \/ StartPortal
    \/ LoopTop
    \/ Refresh
    \/ LoopRest
    \/ ReloadPortal

SpecPortal == PortalInit /\ [][PortalNext]_vars

\* The main loop is sequential code: a pass that can run does run.
SpecPortalLive ==
    SpecPortal /\ WF_vars(LoopTop) /\ WF_vars(LoopRest) /\ WF_vars(Refresh)

-----------------------------------------------------------------------------
(* C1: for every temp_c, dew_c and humidity the index is 2 when            *)
(* temp_c <= dew_c + 2 or humidity >= 80, otherwise 1 when                 *)
(* temp_c <= dew_c + 5, otherwise 0; it is always one of 0, 1, 2 and the   *)
(* humidity test wins over the dew-point margin.                           *)
C1_ThresholdTable ==
    res # Pending =>
        /\ Val(res) \in {0, 1, 2}
        /\ (Val(res) = 2) <=> (arg.temp_c - arg.dew_c <= 20 \/ arg.humid_pct >= 800)
        /\ (Val(res) = 1) <=> ( /\ arg.temp_c - arg.dew_c > 20
                           /\ arg.temp_c - arg.dew_c <= 50
                           /\ arg.humid_pct < 800 )
        /\ (Val(res) = 0) <=> (arg.temp_c - arg.dew_c > 50 /\ arg.humid_pct < 800)

\* The humidity test decides although the margin is above 5 degrees.
C1_Witness ==
    /\ res = Some(2)
    /\ arg.temp_c > arg.dew_c + 50
    /\ arg.humid_pct >= 800

(* C2 as stated: the classification gives 2 for (20, 19, 50), 1 for        *)
(* (20, 14, 50) and 0 for (20, 10, 50).                                     *)
C2_Original ==
    res # Pending =>
        /\ arg = [temp_c |-> 200, dew_c |-> 190, humid_pct |-> 500] => res = Some(2)
        /\ arg = [temp_c |-> 200, dew_c |-> 140, humid_pct |-> 500] => res = Some(1)
        /\ arg = [temp_c |-> 200, dew_c |-> 100, humid_pct |-> 500] => res = Some(0)

(* C2, amended: the classification gives 2 for (20, 19, 50), 0 for         *)
(* (20, 14, 50), whose margin of 6 degrees is above 5, and 0 for           *)
(* (20, 10, 50); index 1 is what (20, 15, 50) gives.                       *)
C2_Examples ==
    res # Pending =>
        /\ arg = [temp_c |-> 200, dew_c |-> 190, humid_pct |-> 500] => res = Some(2)
        /\ arg = [temp_c |-> 200, dew_c |-> 140, humid_pct |-> 500] => res = Some(0)
        /\ arg = [temp_c |-> 200, dew_c |-> 150, humid_pct |-> 500] => res = Some(1)
        /\ arg = [temp_c |-> 200, dew_c |-> 100, humid_pct |-> 500] => res = Some(0)

C2_Witness ==
    /\ arg = [temp_c |-> 200, dew_c |-> 140, humid_pct |-> 500]
    /\ res = Some(0)

(* C3: the index has no memory.  Whenever a classification has just run   *)
(* (the display's loop, or read_local_sensor in a source script), the dew  *)
(* point, the index and the status text are the function of the           *)
(* temperature and humidity of that same evaluation, whatever the index    *)
(* was before.                                                             *)
C3_NoMemory ==
    (io.ok /\ io.call \in {"classify", "read_local_sensor"}) =>
        /\ dew_c = Some(dew_point_calc(Val(temp_c), Val(humid_pct)))
        /\ corrosion_index =
              Some(CorrosionIndex(Val(temp_c), Val(dew_c), Val(humid_pct)))
        /\ script \in {"display027", "source027"} =>
              status = StatusText(Val(corrosion_index))

\* Weather_Source_v027 re-reads the sensor during busy(): the loop still
\* holds an ALERT index while the re-evaluation has produced NORMAL.
C3_Witness ==
    /\ script = "source027"
    /\ io = [call |-> "read_local_sensor", ok |-> TRUE, feed |-> "", at |-> "busy"]
    /\ sens_index = Some(2)
    /\ corrosion_index = Some(0)
    /\ status = "OK"

(* C4: wind_direction(None) is "--"; otherwise the label is the nearest of *)
(* the eight compass labels, the index stays in 0..7, and the N sector     *)
(* wraps: headings 338..359 and 0..22 all give "N".                        *)
C4_WindDirection ==
    res # Pending =>
        /\ arg.heading = None => res = Some("--")
        /\ arg.heading # None =>
           LET h == Val(arg.heading) IN
              /\ WindIndex(h) \in 0..7
              /\ \E k \in 0..7 :
                    /\ res = Some(CompassLabels[k + 1])
                    \* nearest: the heading is within 22.5 degrees of 45k (mod 360)
                    /\ \E w \in {-1, 0, 1} :
                          /\ 2 * (h % 360) - 90 * k + 720 * w >= -45
                          /\ 2 * (h % 360) - 90 * k + 720 * w < 45
              /\ (res = Some("N")) <=> (h % 360 >= 338 \/ h % 360 <= 22)

C4_Witness ==
    /\ arg.heading = Some(359)
    /\ res = Some("N")

(* C5: a failed feed fetch (the throttle query, receive_data or            *)
(* receive_weather raising) is followed by busy(30) and the soft reset,    *)
(* in every script.                                                        *)
C5_FetchFailureResets ==
    (~io.ok /\ io.at \in {"watchdog", "temp", "humid", "weather"}) =>
        /\ pc = "busy"
        /\ after = "reload"
        /\ ticks = 0
        /\ delay = RESET_DELAY

(* C6: an exception in the Wi-Fi connect, in the creation of the AIO       *)
(* client, or in a publish (send_data or its throttle query) starts a      *)
(* wait of 30 ticks that ends in supervisor.reload().  During the wait     *)
(* every step is a tick, or the reload once 30 ticks are done, and no      *)
(* send_data, receive_data or receive_weather is issued.  (In              *)
(* Weather_Source_v027 busy() reads the sensor; if that raises, its own    *)
(* handler starts the 30-tick wait afresh.)                                *)
C6_ResetAfterConnectOrPublishFailure ==
    [][ /\ (~io'.ok /\ io'.at \in {"wifi", "aio", "pub_sensor", "pub_weather"}) =>
              /\ pc' = "busy"
              /\ after' = "reload"
              /\ ticks' = 0
              /\ delay' = RESET_DELAY
        /\ (pc = "busy" /\ after = "reload") =>
              /\ io'.call \notin {"send_data", "receive_data", "receive_weather"}
              /\ \/ /\ ticks < RESET_DELAY
                    /\ ticks' = ticks + 1
                    /\ pc' = "busy" /\ after' = "reload" /\ delay' = delay
                 \/ /\ ticks = RESET_DELAY
                    /\ pc' = "reload"
                    /\ io'.call = "supervisor.reload"
                 \/ /\ script = "source027"
                    /\ io'.call = "sensor" /\ ~io'.ok
                    /\ ticks' = 0
                    /\ pc' = "busy" /\ after' = "reload" /\ delay' = delay
      ]_vars

\* The third publish of a series raised; the 30 ticks are done and the
\* script is at supervisor.reload().
C6_Witness ==
    /\ pc = "reload"
    /\ n = 3
    /\ ticks = RESET_DELAY
    /\ io.call = "supervisor.reload"

C8_ThrottleGuard ==
    [][ io'.call \in {"receive_data", "receive_weather", "send_data"} =>
           /\ io.call = "get_remaining_throttle_limit"
           /\ io.ok
           /\ throttle > 10
      ]_vars

(* C9: in Weather_Display_v027, in a cycle whose fetched table is not      *)
(* empty, the exterior fields are rewritten (from the fetched table and    *)
(* its forecast) if and only if the current-conditions part differs from   *)
(* weather_table_old; when it is equal every exterior field is left as it  *)
(* was.                                                                    *)
C9_ChangeDetection ==
    [][ (script = "display027" /\ pc = "table" /\ weather_table # NoTable) =>
           IF CurrentOf(weather_table) # weather_table_old
           THEN /\ rendered'
                /\ ext' = RenderDisplay(weather_table.current, weather_table.forecast)
                /\ weather_table_old' = CurrentOf(weather_table)
           ELSE /\ ~rendered'
                /\ ext' = ext
                /\ weather_table_old' = weather_table_old
      ]_vars

\* An unchanged current table was fetched with another forecast: nothing
\* was rewritten, and the sunrise on the display is the earlier forecast's.
C9_Witness ==
    /\ script = "display027"
    /\ pc = "busy" /\ after = "cycle"
    /\ ~rendered
    /\ weather_table # NoTable
    /\ weather_table = weather_table_old
    /\ ext.sunrise # RenderDisplay(weather_table.current, forecast_table).sunrise

(* C10 as stated: the wait at the end of every cycle is SAMPLE_INTERVAL    *)
(* ticks.                                                                  *)
C10_Original ==
    (pc = "busy" /\ after = "cycle") => delay = SAMPLE_INTERVAL

(* C10, amended: a cycle whose weather fetch returned a table is followed  *)
(* by exactly SAMPLE_INTERVAL ticks, and a cycle whose fetch returned an   *)
(* empty table by exactly 10 ticks, before the next cycle begins; the      *)
(* wait is left early only when the sensor read inside busy() of           *)
(* Weather_Source_v027 raises, which starts the wait before the soft       *)
(* reset.                                                                  *)
C10_CycleWait ==
    [][ /\ (pc # "busy" /\ pc' = "busy" /\ after' = "cycle") =>
              /\ ticks' = 0
              /\ delay' = IF weather_table' = NoTable
                          THEN STARTUP_INTERVAL
                          ELSE SAMPLE_INTERVAL
        /\ (pc = "busy" /\ after = "cycle") =>
              \/ /\ ticks < delay
                 /\ ticks' = ticks + 1
                 /\ pc' = "busy" /\ after' = "cycle" /\ delay' = delay
              \/ /\ ticks = delay
                 /\ pc' = "time"
              \/ /\ script = "source027"
                 /\ io'.call = "sensor" /\ ~io'.ok
                 /\ pc' = "busy" /\ after' = "reload"
      ]_vars

\* The ten ticks after an empty table are done.
C10_Witness ==
    /\ pc = "busy" /\ after = "cycle"
    /\ weather_table = NoTable
    /\ delay = STARTUP_INTERVAL
    /\ ticks = delay

(* C11: publish_to_aio calls send_data exactly once (for the given feed)   *)
(* when value is not None, xmit is True and nothing raises; when value is  *)
(* None or xmit is False it never calls send_data, never queries the       *)
(* throttle limit, and returns without entering the reset wait; a call     *)
(* that raised has sent nothing.                                           *)
C11_TransmitOnlyWhenEnabled ==
    "value" \in DOMAIN arg =>
        /\ res.sends <= 1
        /\ res.returned =>
              res.sends = IF arg.value # None /\ arg.xmit THEN 1 ELSE 0
        /\ res.sends = 1 =>
              /\ io.call = "send_data" /\ io.ok /\ io.feed = arg.feed
              /\ res.returned
        /\ (arg.value = None \/ ~arg.xmit) =>
              /\ throttle = -1
              /\ res.sends = 0
              /\ pc = "pub_sensor"
              /\ phase \in {"entry", "local", "skip", "done"}
        /\ pc # "pub_sensor" => (res.sends = 0 /\ ~res.returned)

\* A None value with xmit True: the function has returned without sending.
C11_Witness ==
    /\ "value" \in DOMAIN arg
    /\ arg.value = None
    /\ arg.xmit
    /\ res = [sends |-> 0, returned |-> TRUE]
    /\ throttle = -1

C13_KeepsFormerIndex ==
    [][ (pc = "sensor" /\ io'.call = "read_local_sensor"
           /\ (temp_c' = None \/ dew_c' = None)) =>
           /\ pc' = "pub_sensor"
           /\ sens_index' = sens_index
           /\ corrosion_index' = corrosion_index
      ]_vars

(* C14: the throttle wait has no timeout and no cancellation.  Inside the  *)
(* guard of a fetch or publish, a query that returns 10 or less is         *)
(* followed by the one-second sleep and the sleep by the next query, at    *)
(* the same request; the guard is left for the request only by a query     *)
(* that returned more than 10, and otherwise only by a query that raised.  *)
C14_ThrottleWaitNoTimeout ==
    [][ /\ (phase = "throttle" /\ io'.ok) =>
              /\ io'.call = "get_remaining_throttle_limit"
              /\ pc' = pc
              /\ phase' = IF throttle' > 10 THEN "request" ELSE "sleep"
        /\ (phase = "throttle" /\ ~io'.ok) =>
              /\ io'.call = "get_remaining_throttle_limit"
              /\ pc' \in {"busy", "crashed"}
        /\ phase = "sleep" =>
              /\ phase' = "throttle"
              /\ pc' = pc
              /\ throttle' = throttle
      ]_vars

(* C15: in the end-of-cycle wait after a cycle whose weather table was not *)
(* empty, weather_table_old equals the table of that cycle (in the v026 /  *)
(* v027 scripts its extracted current-conditions part); and once           *)
(* weather_table_old holds a table it is never None again while the        *)
(* script runs (only the soft reset starts over with None).                *)
C15_CacheInvariant ==
    [][ /\ (pc' = "busy" /\ after' = "cycle" /\ weather_table' # NoTable) =>
              weather_table_old' = weather_table'
        /\ (weather_table_old # NoTable /\ pc # "reload") =>
              weather_table_old' # NoTable
      ]_vars

\* The display has rendered table 2 after another one and waits.
C15_Witness ==
    /\ script = "display027"
    /\ pc = "busy" /\ after = "cycle" /\ ticks = 1
    /\ rendered
    /\ weather_table = CurrentOf([current |-> 2, forecast |-> 1])
    /\ weather_table_old = weather_table
    /\ ext.desc = Some(Current(2).conditionCode)

(* C16: in the source scripts the weather series is entered in a cycle if  *)
(* and only if the fetched table is not empty and differs from             *)
(* weather_table_old, the table of the last cycle that published the       *)
(* whole series; a weather feed is published nowhere else, the series      *)
(* is published in order and weather_table_old is assigned only after its  *)
(* last feed.  The watchdog and the shop sensor feeds are published in     *)
(* every cycle, in order and completely, before the weather fetch.         *)
C16_WeatherPublishedOnChange ==
    [][ (script \in SourceScripts) =>
         ( /\ pc = "table" =>
                 LET new == IF script = "source" THEN weather_table
                            ELSE CurrentOf(weather_table)
                 IN  (pc' = "pub_weather" /\ n' = 1) <=>
                        (weather_table # NoTable /\ new # weather_table_old)
           /\ (pc' = "pub_weather" /\ pc # "pub_weather") => pc = "table"
           /\ (io'.call \in {"send_data", "print"} /\ io'.ok) =>
                 /\ pc \in {"pub_sensor", "pub_weather"}
                 /\ io'.feed = Feeds(script, pc)[n]
                 /\ io'.call = "send_data" <=> PubXmit(pc)
           /\ (weather_table_old' # weather_table_old /\ pc # "reload") =>
                 /\ pc = "pub_weather"
                 /\ n = Len(WeatherFeeds(script))
                 /\ io'.feed = "weather-daylight"
                 /\ weather_table_old' = weather_table
           /\ (pc' = "weather" /\ pc # "weather") =>
                 /\ pc = "pub_sensor"
                 /\ n = Len(SensorFeeds(script))
                 /\ io'.feed = "shop.int-pcb-temperature"
           /\ (pc = "sensor" /\ io'.ok) => (pc' = "pub_sensor" /\ n' = 1) )
      ]_vars

\* A source script fetched the table it had published before: the sensor
\* feeds went out, the weather series was skipped, the cycle waits.
C16_Witness ==
    /\ script = "source"
    /\ pc = "busy" /\ after = "cycle" /\ ticks = 0
    /\ io.at = "table"
    /\ weather_table # NoTable
    /\ weather_table = weather_table_old
    /\ sens_index # None

C18_RefreshEverySampleInterval ==
    /\ [][ (script \in PortalScripts /\ pc = "loop") =>
             ( /\ current_time' = monotonic
               /\ (pc' = "refresh") <=>
                    (monotonic - last_weather_update > SampleInterval(script))
               /\ pc' \in {"refresh", "rest"} ) ]_vars
    /\ [][ (script \in PortalScripts /\ pc \notin {"start", "reload", "refresh"}) =>
             (last_weather_update' = last_weather_update) ]_vars
    /\ [][ (script \in PortalScripts /\ pc = "refresh" /\ pc' = "rest") =>
             ( /\ last_weather_update' = current_time
               /\ last_weather_update' - last_weather_update >
                    SampleInterval(script) ) ]_vars
    /\ (script \in PortalScripts /\ pc = "loop"
          /\ last_weather_update + SampleInterval(script) + 1 <= MaxTime)
         ~> (pc = "refresh")

\* The corrosion display has refreshed twice in a row since it started.
C18_Witness ==
    /\ script = "corrosion"
    /\ pc = "rest"
    /\ unchanged >= 2
    /\ last_weather_update = current_time
    /\ last_weather_update > 2 * SAMPLE_INTERVAL_CORROSION

\* C19: the feed quality counter of the corrosion display stays in 0..10; a
\* refresh that fetches the value previous_watchdog holds lowers it by one,
\* not below 0, and leaves previous_watchdog; a refresh that fetches another
\* value sets it to 10 and stores the value in previous_watchdog; so after k
\* unchanged refreshes in a row it is max(0, 10 - k), and 0 from the tenth on.
C19_QualityCounter ==
    /\ [](script = "corrosion" =>
            /\ quality \in 0..10
            /\ quality = (IF unchanged >= 10 THEN 0 ELSE 10 - unchanged))
    /\ [][ (script = "corrosion" /\ pc = "refresh"
              /\ last_weather_update' = current_time) =>
             IF watchdog' = previous_watchdog
             THEN /\ quality' = (IF quality = 0 THEN 0 ELSE quality - 1)
                  /\ previous_watchdog' = previous_watchdog
                  /\ unchanged' = unchanged + 1
             ELSE /\ quality' = 10
                  /\ previous_watchdog' = watchdog'
                  /\ unchanged' = 0 ]_vars

\* The watchdog has stayed the same for eleven refreshes: the counter is at 0
\* and was there the refresh before.
C19_Witness ==
    /\ script = "corrosion"
    /\ pc = "rest"
    /\ unchanged = 11
    /\ quality = 0

\* C20: the temperature, humidity and dew-point labels of the corrosion
\* display are RED exactly when quality < QUALITY_THRESHOLD (8), which is from
\* the third unchanged watchdog in a row on, and a refresh that finds the
\* watchdog changed leaves them WHITE.
C20_WarningColor ==
    /\ [](script = "corrosion" =>
            /\ label_color \in {"RED", "WHITE"}
            /\ (label_color = "RED") <=> (quality < 8)
            /\ (label_color = "RED") <=> (unchanged >= 3))
    /\ [][ (script = "corrosion" /\ pc = "refresh"
              /\ last_weather_update' = current_time
              /\ watchdog' # previous_watchdog) =>
             (label_color' = "WHITE") ]_vars

\* The third unchanged watchdog in a row has just turned the labels RED.
C20_Witness ==
    /\ script = "corrosion"
    /\ pc = "rest"
    /\ unchanged = 3
    /\ quality = 7
    /\ label_color = "RED"

\* C21: in a cycle of the weather display the step that fetches the
\* system-watchdog feed raises QUALITY WARN when created_at, shifted by
\* TIMEZONE_OFFSET hours, is more than 600 s before time.time(), and
\* QUALITY OK otherwise, also at 600 s exactly; the alert depends on the
\* value fetched in that step alone, and no other step of a cycle changes it.
C21_SourceFreshness ==
    /\ [][ (script = "display027" /\ pc = "watchdog" /\ pc' = "temp") =>
             ( /\ q_json' # None
               /\ quality_alert' =
                    IF time_now' - (Val(q_json') + TIMEZONE_OFFSET * 3600) > 600
                    THEN "QUALITY WARN"
                    ELSE "QUALITY OK" ) ]_vars
    /\ [][ (script = "display027" /\ pc # "reload"
              /\ ~(pc = "watchdog" /\ pc' = "temp")) =>
             UNCHANGED <<q_json, time_now, quality_alert>> ]_vars
    /\ [](script = "display027" /\ pc \in {"temp", "humid", "classify"}
            => quality_alert \in {"QUALITY WARN", "QUALITY OK"})

\* The watchdog value fetched is exactly 600 s old and the alert is QUALITY OK.
C21_Witness ==
    /\ script = "display027"
    /\ pc = "temp"
    /\ q_json # None
    /\ time_now - (Val(q_json) + TIMEZONE_OFFSET * 3600) = 600
    /\ quality_alert = "QUALITY OK"

=============================================================================
